---- MODULE Spec2Model ----
(***************************************************************************)
(* Model of the opendeck-akp153 plugin core: the device kind catalog of    *)
(* src/mappings.rs and the dispatcher task of src/dispatcher.rs.           *)
(***************************************************************************)
EXTENDS Integers, Sequences, FiniteSets, TLC

VARIABLES
    \* ---- dispatcher_task (src/dispatcher.rs) ----
    inbox,        \* disp_rx: the dispatcher's inbound queue, oldest first
    pc,           \* position of dispatcher_task
    devices,      \* the registry HashMap<String, Sender>, as a set of entries
    outbound,     \* OUTBOUND_EVENT_MANAGER is Some(..)
    chan,         \* per device handle: the queue behind that Sender
    closed,       \* device handles whose receiver is gone
    todo,         \* the sends still to make, the first being the one the
                  \* dispatcher is suspended in
    rx_open,      \* TRUE until disp_rx is closed or dropped
    spawned,      \* number of device_task sessions spawned so far
    received,     \* number of messages recv() has returned
    lifecycle,    \* the Connected and Disconnected messages received, in
                  \* order, each as [type, id]
    pre,          \* the registry, and whether the event manager was installed,
                  \* when the last message was received
    out,          \* what handling the last message did
    delivered,    \* the deliveries made so far, in order: each the destination
                  \* ("host" or "handle"), the device id and the arrival
                  \* number of the message it was made for
    host_view,    \* per id: the register_device calls the host has answered
                  \* minus the deregister_device calls it has answered
    announced,    \* the [id, tx] of every Connected received that no
                  \* Disconnected for the same id has followed
    \* ---- catalog and scan (src/mappings.rs) ----
    query,        \* the (vid, pid) pair handed to Kind::from_vid_pid
    resolved,     \* [called, ret]: whether from_vid_pid ran and its result
    hid,          \* the live HID interfaces
    candidates,   \* the result of the scan
    suffix_calls, \* the kinds id_suffix was invoked on by the scan
    scan_pc,      \* "idle", "done" or "panicked"
    image         \* [kind, key, called, format]: the arguments handed to
                  \* get_image_format_for_key, whether it ran and its result

vars == <<inbox, pc, devices, outbound, chan, closed, todo,
          rx_open, spawned, received, lifecycle, pre, out,
          delivered, host_view, announced,
          query, resolved, hid, candidates, suffix_calls, scan_pc, image>>

dispVars == <<inbox, pc, devices, outbound, chan, closed, todo,
              rx_open, spawned, received, lifecycle, pre, out,
              delivered, host_view, announced>>

catVars == <<query, resolved, hid, candidates, suffix_calls, scan_pc, image>>

(***************************************************************************)
(*                       src/mappings.rs                                   *)
(***************************************************************************)

DEVICE_NAMESPACE == "99"

ROW_COUNT == 3
COL_COUNT == 6
KEY_COUNT == ROW_COUNT * COL_COUNT
ENCODER_COUNT == 0

\* enum Kind, in declaration order
Kind ==
    << "HSV293S", "HSV293SV3", "HSV293SV3_1005", "AKP153", "AKP153E",
       "AKP153EREV2", "AKP153R", "MSDONE", "GK150K", "RMV01", "TMICESC" >>

Kinds == { Kind[i] : i \in 1..Len(Kind) }

AJAZZ_VID == 768        \* 0x0300
MIRABOX_VID == 21832    \* 0x5548
MIRABOX_2_VID == 26115  \* 0x6603
MG_VID == 2816          \* 0x0b00
MADDOG_VID == 3072      \* 0x0c00
RISEMODE_VID == 2560    \* 0x0a00
TMICE_VID == 1280       \* 0x0500

HSV293S_PID == 26224        \* 0x6670
HSV293SV3_PID == 4116       \* 0x1014
HSV293SV3_1005_PID == 4101  \* 0x1005

AKP153_PID == 26228         \* 0x6674
AKP153E_PID == 4112         \* 0x1010
AKP153E_REV2_PID == 12304   \* 0x3010
AKP153R_PID == 4128         \* 0x1020

MSD_ONE_PID == 4096         \* 0x1000

GK150K_PID == 4096          \* 0x1000

RMV01_PID == 4097           \* 0x1001
TMICESC_PID == 4097         \* 0x1001

\* mirajazz DeviceQuery::new(usage_page, usage_id, vendor_id, product_id)
DeviceQuery(usage_page, usage_id, vendor_id, product_id) ==
    [ usage_page |-> usage_page, usage_id |-> usage_id,
      vendor_id |-> vendor_id, product_id |-> product_id ]

HSV293S_QUERY == DeviceQuery(65440, 1, MIRABOX_VID, HSV293S_PID)
HSV293SV3_QUERY == DeviceQuery(65440, 1, MIRABOX_2_VID, HSV293SV3_PID)
HSV293SV3_1005_QUERY == DeviceQuery(65440, 1, MIRABOX_2_VID, HSV293SV3_1005_PID)
AKP153_QUERY == DeviceQuery(65440, 1, AJAZZ_VID, AKP153_PID)
AKP153E_QUERY == DeviceQuery(65440, 1, AJAZZ_VID, AKP153E_PID)
AKP153E_REV2_QUERY == DeviceQuery(65440, 1, AJAZZ_VID, AKP153E_REV2_PID)
AKP153R_QUERY == DeviceQuery(65440, 1, AJAZZ_VID, AKP153R_PID)
MSD_ONE_QUERY == DeviceQuery(65440, 1, MG_VID, MSD_ONE_PID)
GK150K_QUERY == DeviceQuery(65440, 1, MADDOG_VID, GK150K_PID)
RMV01_QUERY == DeviceQuery(65440, 1, RISEMODE_VID, RMV01_PID)
TMICESC_QUERY == DeviceQuery(65440, 1, TMICE_VID, TMICESC_PID)

QUERIES ==
    << HSV293S_QUERY, HSV293SV3_QUERY, HSV293SV3_1005_QUERY, AKP153_QUERY,
       AKP153E_QUERY, AKP153E_REV2_QUERY, AKP153R_QUERY, MSD_ONE_QUERY,
       GK150K_QUERY, RMV01_QUERY, TMICESC_QUERY >>

\* Option<T>: None is the empty tuple, Some(v) the one-element tuple
None == << >>
Some(v) == << v >>

\* Mutant of from_vid_pid: the inner match of the MADDOG_VID arm is dropped,
\* so every product id of that vendor resolves to GK150K.
from_vid_pid_no_inner_match(vid, pid) ==
    IF vid = AJAZZ_VID THEN
        IF pid = AKP153_PID THEN Some("AKP153")
        ELSE IF pid = AKP153E_PID THEN Some("AKP153E")
        ELSE IF pid = AKP153E_REV2_PID THEN Some("AKP153EREV2")
        ELSE IF pid = AKP153R_PID THEN Some("AKP153R")
        ELSE None
    ELSE IF vid = MIRABOX_VID THEN
        IF pid = HSV293S_PID THEN Some("HSV293S") ELSE None
    ELSE IF vid = MIRABOX_2_VID THEN
        IF pid = HSV293SV3_PID THEN Some("HSV293SV3")
        ELSE IF pid = HSV293SV3_1005_PID THEN Some("HSV293SV3_1005")
        ELSE None
    ELSE IF vid = MG_VID THEN
        IF pid = MSD_ONE_PID THEN Some("MSDONE") ELSE None
    ELSE IF vid = MADDOG_VID THEN Some("GK150K")
    ELSE IF vid = RISEMODE_VID THEN
        IF pid = RMV01_PID THEN Some("RMV01") ELSE None
    ELSE IF vid = TMICE_VID THEN
        IF pid = TMICESC_PID THEN Some("TMICESC") ELSE None
    ELSE None

\* Kind::from_vid_pid: match vid { V => match pid { P => Some(..), _ => None }, _ => None }
from_vid_pid(vid, pid) ==
    IF vid = AJAZZ_VID THEN
        IF pid = AKP153_PID THEN Some("AKP153")
        ELSE IF pid = AKP153E_PID THEN Some("AKP153E")
        ELSE IF pid = AKP153E_REV2_PID THEN Some("AKP153EREV2")
        ELSE IF pid = AKP153R_PID THEN Some("AKP153R")
        ELSE None
    ELSE IF vid = MIRABOX_VID THEN
        IF pid = HSV293S_PID THEN Some("HSV293S") ELSE None
    ELSE IF vid = MIRABOX_2_VID THEN
        IF pid = HSV293SV3_PID THEN Some("HSV293SV3")
        ELSE IF pid = HSV293SV3_1005_PID THEN Some("HSV293SV3_1005")
        ELSE None
    ELSE IF vid = MG_VID THEN
        IF pid = MSD_ONE_PID THEN Some("MSDONE") ELSE None
    ELSE IF vid = MADDOG_VID THEN
        IF pid = GK150K_PID THEN Some("GK150K") ELSE None
    ELSE IF vid = RISEMODE_VID THEN
        IF pid = RMV01_PID THEN Some("RMV01") ELSE None
    ELSE IF vid = TMICE_VID THEN
        IF pid = TMICESC_PID THEN Some("TMICESC") ELSE None
    ELSE None

\* Kind::supports_both_states
supports_both_states(kind) ==
    IF kind = "HSV293SV3" THEN TRUE
    ELSE IF kind = "HSV293SV3_1005" THEN TRUE
    ELSE IF kind = "AKP153EREV2" THEN TRUE
    ELSE FALSE

\* Mutant of protocol_version: the AKP153EREV2 arm is missing, so that kind
\* falls through to the default generation 1.
protocol_version_rev2_default(kind) ==
    IF kind = "HSV293SV3" THEN 2
    ELSE IF kind = "HSV293SV3_1005" THEN 2
    ELSE 1

\* Kind::protocol_version
protocol_version(kind) ==
    IF kind = "HSV293SV3" THEN 2
    ELSE IF kind = "HSV293SV3_1005" THEN 2
    ELSE IF kind = "AKP153EREV2" THEN 2
    ELSE 1

\* Kind::human_name
human_name(kind) ==
    CASE kind = "HSV293S" -> "Mirabox HSV293S"
      [] kind = "HSV293SV3" -> "Mirabox HSV293SV3"
      [] kind = "HSV293SV3_1005" -> "Mirabox HSV293SV3"
      [] kind = "AKP153" -> "Ajazz AKP153"
      [] kind = "AKP153E" -> "Ajazz AKP153E"
      [] kind = "AKP153EREV2" -> "Ajazz AKP153E (rev. 2)"
      [] kind = "AKP153R" -> "Ajazz AKP153R"
      [] kind = "MSDONE" -> "Mars Gaming MSD-ONE"
      [] kind = "GK150K" -> "Mad Dog GK150K"
      [] kind = "RMV01" -> "Risemode Vision 01"
      [] kind = "TMICESC" -> "TMICE Stream Controller"

\* A call either returns a value or panics (unreachable!(), unwrap on Err).
Returns(v) == [ panic |-> FALSE, val |-> v ]
Unreachable == [ panic |-> TRUE, val |-> "" ]

\* Mutant of id_suffix: AKP153E gets the suffix of AKP153.
id_suffix_shared(kind) ==
    CASE kind = "AKP153" -> Returns("153")
      [] kind = "AKP153E" -> Returns("153")
      [] kind = "AKP153R" -> Returns("153R")
      [] kind = "HSV293S" -> Returns("293S")
      [] kind = "MSDONE" -> Returns("MSDONE")
      [] kind = "GK150K" -> Returns("GK150K")
      [] kind = "RMV01" -> Returns("RMV01")
      [] kind = "TMICESC" -> Returns("TMICESC")
      [] kind = "HSV293SV3" -> Unreachable
      [] kind = "HSV293SV3_1005" -> Unreachable
      [] kind = "AKP153EREV2" -> Unreachable

\* Kind::id_suffix
id_suffix(kind) ==
    CASE kind = "AKP153" -> Returns("153")
      [] kind = "AKP153E" -> Returns("153E")
      [] kind = "AKP153R" -> Returns("153R")
      [] kind = "HSV293S" -> Returns("293S")
      [] kind = "MSDONE" -> Returns("MSDONE")
      [] kind = "GK150K" -> Returns("GK150K")
      [] kind = "RMV01" -> Returns("RMV01")
      [] kind = "TMICESC" -> Returns("TMICESC")
      [] kind = "HSV293SV3" -> Unreachable
      [] kind = "HSV293SV3_1005" -> Unreachable
      [] kind = "AKP153EREV2" -> Unreachable

\* Mutant of get_image_format_for_key: key 17 is missing from the match arm
\* of the smaller keys.
get_image_format_for_key_two_small(kind, key) ==
    IF protocol_version(kind) = 1 THEN
        [ mode |-> "JPEG", size |-> <<85, 85>>,
          rotation |-> "Rot90", mirror |-> "Both" ]
    ELSE
        LET size == IF key \in {5, 11} THEN <<82, 82>> ELSE <<95, 95>>
        IN  [ mode |-> "JPEG", size |-> size,
              rotation |-> "Rot90", mirror |-> "Both" ]

\* get_image_format_for_key(kind, key)
get_image_format_for_key(kind, key) ==
    IF protocol_version(kind) = 1 THEN
        [ mode |-> "JPEG", size |-> <<85, 85>>,
          rotation |-> "Rot90", mirror |-> "Both" ]
    ELSE
        LET size == IF key \in {5, 11, 17} THEN <<82, 82>> ELSE <<95, 95>>
        IN  [ mode |-> "JPEG", size |-> size,
              rotation |-> "Rot90", mirror |-> "Both" ]

(***************************************************************************)
(*  Candidate scan (get_candidates of src/device.rs, called at             *)
(*  src/dispatcher.rs:32).  A live interface is a record with the fields   *)
(*  usage_page, usage_id, vendor_id, product_id, serial_number and port.   *)
(***************************************************************************)

\* The interface's tuple is exactly one of the catalog's queries.
matches_query(dev) ==
    \E i \in 1..Len(QUERIES) :
        QUERIES[i] = DeviceQuery(dev.usage_page, dev.usage_id,
                                 dev.vendor_id, dev.product_id)

kind_of(dev) == from_vid_pid(dev.vendor_id, dev.product_id)

\* The interfaces that survive the filter and resolve to a Kind.
scan_survivors(live) ==
    { dev \in live : matches_query(dev) /\ kind_of(dev) # None }

\* The kinds the scan invokes id_suffix on: it branches on the protocol
\* version first.
scan_suffix_calls(live) ==
    { kind_of(dev)[1] : dev \in
        { d \in scan_survivors(live) : protocol_version(kind_of(d)[1]) = 1 } }

\* Logical id: serial plus id_suffix for generation 1, serial alone otherwise.
candidate_id(kind, serial) ==
    IF protocol_version(kind) = 1
    THEN serial \o id_suffix(kind).val
    ELSE serial

\* struct CandidateDevice { id, dev, kind }
CandidateDevice(dev) ==
    [ id |-> candidate_id(kind_of(dev)[1], dev.serial_number),
      dev |-> dev,
      kind |-> kind_of(dev)[1] ]

get_candidates(live) ==
    { CandidateDevice(dev) : dev \in scan_survivors(live) }

(***************************************************************************)
(*                       src/dispatcher.rs                                 *)
(***************************************************************************)

\* ---- bounds of the model ----
MaxMsgs == 3     \* messages ever sent into the dispatcher's inbound channel
ChanCap == 1     \* capacity of the bounded mpsc channel behind a device handle

Ids == { "X", "Y" }
Handles == { "tx1", "tx2" }
\* The kind of the device the session behind each handle drives.
session_kind(tx) == IF tx = "tx1" THEN "AKP153" ELSE "HSV293SV3"
Keys == { 7, 17 }
Images == { "img" }
Levels == { 50, 100 }

\* DeviceStateUpdate: the two button variants, and one of the others
StateUpdates ==
    [ ev : { "ButtonDown", "ButtonUp" }, key : Keys ]
        \cup { [ ev |-> "EncoderTwist", key |-> 0 ] }

\* enum DeviceMessage
PluginInitialized == [ type |-> "PluginInitialized" ]
Connected(id, kind, device_tx) ==
    [ type |-> "Connected", id |-> id, kind |-> kind, tx |-> device_tx ]
Disconnected(id) == [ type |-> "Disconnected", id |-> id ]
ShutdownAll == [ type |-> "ShutdownAll" ]
Update(id, update) == [ type |-> "Update", id |-> id, update |-> update ]
SetImage(id, event) == [ type |-> "SetImage", id |-> id, event |-> event ]
SetBrightness(id, brightness) ==
    [ type |-> "SetBrightness", id |-> id, brightness |-> brightness ]

\* Before the first message: no message has been handled.
NoMessage == [ type |-> "none" ]

DeviceMessage ==
    { PluginInitialized, ShutdownAll }
        \cup { Connected(id, session_kind(tx), tx) : id \in Ids, tx \in Handles }
        \cup { Disconnected(id) : id \in Ids }
        \cup { Update(id, u) : id \in Ids, u \in StateUpdates }
        \cup { SetImage(id, e) : id \in Ids, e \in Images }
        \cup { SetBrightness(id, b) : id \in Ids, b \in Levels }

\* ---- HashMap<String, Sender<DeviceMessage>> as a set of [id, tx] entries ----
Entry(id, tx) == [ id |-> id, tx |-> tx ]

\* Mutant of insert: an existing entry for the key is kept beside the new one.
insert_keep_old(map, id, tx) == map \cup { Entry(id, tx) }

\* HashMap::insert: the value for the key is replaced
insert(map, id, tx) == { e \in map : e.id # id } \cup { Entry(id, tx) }

\* Mutant of remove_entry: the whole map is cleared.
remove_entry_clear(map, id) == { }

\* HashMap::remove_entry
remove_entry(map, id) == { e \in map : e.id # id }

\* HashMap::contains_key
contains_key(map, id) == \E e \in map : e.id = id

\* Mutant of get: the key is not compared, the handle of some entry is
\* returned whenever the map holds the key.
get_ignore_key(map, id) ==
    IF contains_key(map, id)
    THEN Some((CHOOSE e \in map :
                  (\E o \in map : o.id # id) => e.id # id).tx)
    ELSE None

\* HashMap::get, as an Option
get(map, id) ==
    IF contains_key(map, id)
    THEN Some((CHOOSE e \in map : e.id = id).tx)
    ELSE None

\* ---- calls on the host's outbound event manager ----
\* Mutant of register_device: the row and column counts are swapped.
register_device_swapped(id, name, rows, cols, enc_rows, enc_cols) ==
    [ call |-> "register_device", id |-> id, name |-> name, rows |-> cols,
      cols |-> rows, enc_rows |-> enc_rows, enc_cols |-> enc_cols ]

register_device(id, name, rows, cols, enc_rows, enc_cols) ==
    [ call |-> "register_device", id |-> id, name |-> name, rows |-> rows,
      cols |-> cols, enc_rows |-> enc_rows, enc_cols |-> enc_cols ]
deregister_device(id) == [ call |-> "deregister_device", id |-> id ]
key_down(id, key) == [ call |-> "key_down", id |-> id, key |-> key ]
key_up(id, key) == [ call |-> "key_up", id |-> id, key |-> key ]

\* What handling one message did: the host calls made, the log records
\* written (by level) and the sends made on device handles.
Outcome(msg, host, logs, sends, panic) ==
    [ msg |-> msg, host |-> host, logs |-> logs, sends |-> sends,
      panic |-> panic ]

\* An awaited host call and whether it returned Ok.
HostCall(call, ok) == [ call |-> call, ok |-> ok ]

\* One send on a device handle and its result.
SendRecord(id, tx, msg, ok) == [ id |-> id, tx |-> tx, msg |-> msg, ok |-> ok ]


\* The request of one send: the registry id it is made for, the handle and
\* the message.
SendReq(id, tx, msg) == [ id |-> id, tx |-> tx, msg |-> msg ]

\* Sender::send(..).await on a bounded channel: Err at once when the receiver
\* is gone, the message queued when there is room, suspended otherwise.
send_result(ch, cl, tx) ==
    IF tx \in cl THEN "Err"
    ELSE IF Len(ch[tx]) < ChanCap THEN "Ok"
    ELSE "Pending"

\* One delivery: to the host ("host") or to the device handle ("handle"),
\* for the device id, of the message that arrived as number seq.
Delivery(dest, id, seq) == [ dest |-> dest, id |-> id, seq |-> seq ]

\* Mutant of unwrap: an Err is discarded and the loop goes on.
unwrap_or_ignore(ok) == "running"

\* Result::unwrap on the result of an awaited host call: the task goes on
\* when it is Ok and panics when it is Err.
unwrap(ok) == IF ok THEN "running" ELSE "panicked"

\* let message = disp_rx.recv().await.unwrap(), for a queued message
Recv(type) ==
    /\ pc = "running"
    /\ inbox # << >>
    /\ Head(inbox).type = type
    /\ inbox' = Tail(inbox)
    /\ received' = received + 1
    /\ lifecycle' = IF type \in { "Connected", "Disconnected" }
                    THEN Append(lifecycle,
                                [ type |-> type, id |-> Head(inbox).id ])
                    ELSE lifecycle
    /\ pre' = [ devices |-> devices, outbound |-> outbound ]

\* The scan as the dispatcher runs it: the candidates, the kinds id_suffix
\* was invoked on, and whether one of those invocations panicked.
scan(live) ==
    [ suffix_calls |-> scan_suffix_calls(live),
      panic |-> \E k \in scan_suffix_calls(live) : id_suffix(k).panic,
      candidates |->
          IF \E k \in scan_suffix_calls(live) : id_suffix(k).panic
          THEN { }
          ELSE get_candidates(live) ]

\* DeviceMessage::PluginInitialized => scan, one device_task per candidate
HandlePluginInitialized ==
    /\ Recv("PluginInitialized")
    /\ LET r == scan(hid)
           n == Cardinality(r.candidates)
       IN  /\ candidates' = r.candidates
           /\ suffix_calls' = r.suffix_calls
           /\ scan_pc' = IF r.panic THEN "panicked" ELSE "done"
           /\ spawned' = spawned + n
           /\ pc' = IF r.panic THEN "panicked" ELSE "running"
           /\ rx_open' = ~r.panic
           /\ out' = Outcome(Head(inbox), << >>,
                             IF r.panic THEN << "debug" >>
                             ELSE << "debug" >> \o [ i \in 1..n |-> "info" ]
                                                \o << "info" >>,
                             << >>, r.panic)
    /\ UNCHANGED << devices, outbound, chan, closed, todo,
                    delivered, host_view, announced >>
    /\ UNCHANGED << query, resolved, hid, image >>

\* DeviceMessage::Connected(id, kind, device_tx)
HandleConnected ==
    /\ Recv("Connected")
    /\ LET m == Head(inbox) IN
       \E ok \in (IF outbound THEN BOOLEAN ELSE { TRUE }) :
           /\ devices' = insert(devices, m.id, m.tx)
           /\ out' = Outcome(m,
                 IF outbound
                 THEN << HostCall(register_device(m.id, human_name(m.kind),
                                      ROW_COUNT, COL_COUNT, 0, 0), ok) >>
                 ELSE << >>,
                 << "debug", "info" >>, << >>, ~ok)
           /\ host_view' = IF outbound /\ ok
                            THEN [ host_view EXCEPT ![m.id] = @ + 1 ]
                            ELSE host_view
           /\ announced' = announced \cup { Entry(m.id, m.tx) }
           /\ pc' = unwrap(ok)
           /\ rx_open' = ok
    /\ UNCHANGED << outbound, chan, closed, todo, spawned, delivered >>
    /\ UNCHANGED catVars

\* DeviceMessage::Disconnected(id)
HandleDisconnected ==
    /\ Recv("Disconnected")
    /\ LET m == Head(inbox) IN
       \E ok \in (IF outbound THEN BOOLEAN ELSE { TRUE }) :
           /\ devices' = remove_entry(devices, m.id)
           /\ out' = Outcome(m,
                 IF outbound
                 THEN << HostCall(deregister_device(m.id), ok) >>
                 ELSE << >>,
                 << "debug", "info" >>, << >>, ~ok)
           /\ host_view' = IF outbound /\ ok
                            THEN [ host_view EXCEPT ![m.id] = @ - 1 ]
                            ELSE host_view
           /\ announced' = { e \in announced : e.id # m.id }
           /\ pc' = unwrap(ok)
           /\ rx_open' = ok
    /\ UNCHANGED << outbound, chan, closed, todo, spawned, delivered >>
    /\ UNCHANGED catVars

\* Mutant of update_call: the two button arms are swapped.
update_call_swapped(id, update) ==
    IF update.ev = "ButtonDown" THEN << key_up(id, update.key) >>
    ELSE IF update.ev = "ButtonUp" THEN << key_down(id, update.key) >>
    ELSE << >>

\* The host call an Update makes: key_down, key_up, or none for the other
\* event types.
update_call(id, update) ==
    IF update.ev = "ButtonDown" THEN << key_down(id, update.key) >>
    ELSE IF update.ev = "ButtonUp" THEN << key_up(id, update.key) >>
    ELSE << >>

\* DeviceMessage::Update(id, update)
HandleUpdate ==
    /\ Recv("Update")
    /\ LET m == Head(inbox)
           calls == IF contains_key(devices, m.id) /\ outbound
                    THEN update_call(m.id, m.update)
                    ELSE << >>
       IN  \E ok \in (IF calls # << >> THEN BOOLEAN ELSE { TRUE }) :
           /\ out' = Outcome(m,
                 [ i \in 1..Len(calls) |-> HostCall(calls[i], ok) ],
                 IF contains_key(devices, m.id)
                 THEN << "debug" >>
                 ELSE << "debug", "error" >>,
                 << >>, ~ok)
           /\ delivered' =
                  delivered \o [ i \in 1..(IF ok THEN Len(calls) ELSE 0) |->
                                   Delivery("host", m.id, received') ]
           /\ pc' = unwrap(ok)
           /\ rx_open' = ok
    /\ UNCHANGED << devices, outbound, chan, closed, todo, spawned,
                    host_view, announced >>
    /\ UNCHANGED catVars

\* Mutant of Forward: a send that finds the channel full is not awaited,
\* the loop goes on to the next recv while the send is still to be made.
Forward_not_awaited(m, tx) ==
    LET res == send_result(chan, closed, tx) IN
    /\ chan' = IF res = "Ok" THEN [ chan EXCEPT ![tx] = Append(@, m) ] ELSE chan
    /\ todo' = IF res = "Pending" THEN << SendReq(m.id, tx, m) >> ELSE << >>
    /\ pc' = IF res = "Err" THEN "panicked" ELSE "running"
    /\ rx_open' = (res # "Err")
    /\ out' = Outcome(Head(inbox), << >>, << "debug" >>,
                      IF res = "Pending" THEN << >>
                      ELSE << SendRecord(m.id, tx, m, res = "Ok") >>,
                      res = "Err")
    /\ delivered' = IF res = "Ok"
                    THEN Append(delivered, Delivery("handle", m.id, received'))
                    ELSE delivered

\* device_tx.send(msg).await.unwrap() of the SetImage and SetBrightness arms:
\* a closed channel panics, a full one suspends the dispatcher.
Forward(m, tx) ==
    LET res == send_result(chan, closed, tx) IN
    /\ chan' = IF res = "Ok" THEN [ chan EXCEPT ![tx] = Append(@, m) ] ELSE chan
    /\ todo' = IF res = "Pending" THEN << SendReq(m.id, tx, m) >> ELSE << >>
    /\ pc' = IF res = "Ok" THEN "running"
             ELSE IF res = "Err" THEN "panicked"
             ELSE "forwarding"
    /\ rx_open' = (res # "Err")
    /\ out' = Outcome(Head(inbox), << >>, << "debug" >>,
                      IF res = "Pending" THEN << >>
                      ELSE << SendRecord(m.id, tx, m, res = "Ok") >>,
                      res = "Err")
    /\ delivered' = IF res = "Ok"
                    THEN Append(delivered, Delivery("handle", m.id, received'))
                    ELSE delivered

\* The else branch of the two arms: log::error!, nothing else.
UnknownDevice ==
    /\ out' = Outcome(Head(inbox), << >>, << "debug", "error" >>, << >>, FALSE)
    /\ UNCHANGED << chan, todo, pc, rx_open, delivered >>

\* DeviceMessage::SetImage(id, event)
HandleSetImage ==
    /\ Recv("SetImage")
    /\ LET m == Head(inbox)
           device_tx == get(devices, m.id)
       IN  IF device_tx # None
           THEN Forward(SetImage(m.id, m.event), device_tx[1])
           ELSE UnknownDevice
    /\ UNCHANGED << devices, outbound, closed, spawned, host_view, announced >>
    /\ UNCHANGED catVars

\* DeviceMessage::SetBrightness(id, brightness)
HandleSetBrightness ==
    /\ Recv("SetBrightness")
    /\ LET m == Head(inbox)
           device_tx == get(devices, m.id)
       IN  IF device_tx # None
           THEN Forward(SetBrightness(m.id, m.brightness), device_tx[1])
           ELSE UnknownDevice
    /\ UNCHANGED << devices, outbound, closed, spawned, host_view, announced >>
    /\ UNCHANGED catVars

\* The suspended send of a forward completes: the session made room, or its
\* receiver went away.
ResumeForward ==
    /\ pc = "forwarding"
    /\ LET r == Head(todo)
           res == send_result(chan, closed, r.tx)
       IN  /\ res # "Pending"
           /\ chan' = IF res = "Ok"
                      THEN [ chan EXCEPT ![r.tx] = Append(@, r.msg) ]
                      ELSE chan
           /\ pc' = IF res = "Ok" THEN "running" ELSE "panicked"
           /\ rx_open' = (res = "Ok")
           /\ out' = [ out EXCEPT
                         !.sends = Append(@, SendRecord(r.id, r.tx, r.msg,
                                                        res = "Ok")),
                         !.panic = (res = "Err") ]
           /\ delivered' = IF res = "Ok"
                           THEN Append(delivered,
                                       Delivery("handle", r.id, received))
                           ELSE delivered
    /\ todo' = << >>
    /\ UNCHANGED << inbox, devices, outbound, closed, spawned,
                    received, lifecycle, pre, host_view, announced >>
    /\ UNCHANGED catVars

\* Mutant of iter: the iteration stops after the first entry.
iter_first_only(map) ==
    IF map = { } THEN { << >> } ELSE { << e >> : e \in map }

\* devices.iter(): every entry once, in an order the HashMap chooses
iter(map) ==
    { f \in [ 1..Cardinality(map) -> map ] :
        \A i, j \in 1..Cardinality(map) : i # j => f[i] # f[j] }

\* Mutant of broadcast: the Err of a send is not discarded, it ends the
\* loop, and the entries after it get nothing.
RECURSIVE broadcast_stop_on_err(_, _, _, _)
broadcast_stop_on_err(reqs, ch, cl, sends) ==
    IF reqs = << >>
    THEN [ chan |-> ch, rest |-> << >>, sends |-> sends ]
    ELSE LET r == Head(reqs)
             res == send_result(ch, cl, r.tx)
         IN  IF res = "Pending"
             THEN [ chan |-> ch, rest |-> reqs, sends |-> sends ]
             ELSE IF res = "Err"
             THEN [ chan |-> ch, rest |-> << >>,
                    sends |-> Append(sends,
                                     SendRecord(r.id, r.tx, r.msg, FALSE)) ]
             ELSE broadcast_stop_on_err(Tail(reqs),
                      [ ch EXCEPT ![r.tx] = Append(@, r.msg) ],
                      cl,
                      Append(sends, SendRecord(r.id, r.tx, r.msg, TRUE)))

\* for (_id, device_tx) in devices.iter() { let _ = device_tx.send(ShutdownAll).await; }
\* run until the loop ends or a send is suspended on a full channel.
RECURSIVE broadcast(_, _, _, _)
broadcast(reqs, ch, cl, sends) ==
    IF reqs = << >>
    THEN [ chan |-> ch, rest |-> << >>, sends |-> sends ]
    ELSE LET r == Head(reqs)
             res == send_result(ch, cl, r.tx)
         IN  IF res = "Pending"
             THEN [ chan |-> ch, rest |-> reqs, sends |-> sends ]
             ELSE broadcast(Tail(reqs),
                      IF res = "Ok"
                      THEN [ ch EXCEPT ![r.tx] = Append(@, r.msg) ]
                      ELSE ch,
                      cl,
                      Append(sends, SendRecord(r.id, r.tx, r.msg, res = "Ok")))

\* Mutant of AfterBroadcast: the break is missing, the loop goes on to the
\* next recv.
AfterBroadcast_no_break(r) ==
    /\ chan' = r.chan
    /\ todo' = r.rest
    /\ pc' = IF r.rest = << >> THEN "running" ELSE "draining"
    /\ rx_open' = TRUE

\* The state after the broadcast ran as far as it could: break and
\* disp_rx.close() once every send has returned.
AfterBroadcast(r) ==
    /\ chan' = r.chan
    /\ todo' = r.rest
    /\ pc' = IF r.rest = << >> THEN "finished" ELSE "draining"
    /\ rx_open' = (r.rest # << >>)

\* DeviceMessage::ShutdownAll
HandleShutdownAll ==
    /\ Recv("ShutdownAll")
    /\ \E order \in iter(devices) :
           LET reqs == [ i \in 1..Len(order) |->
                           SendReq(order[i].id, order[i].tx, ShutdownAll) ]
               r == broadcast(reqs, chan, closed, << >>)
           IN  /\ AfterBroadcast(r)
               /\ out' = Outcome(Head(inbox), << >>,
                            IF r.rest = << >>
                            THEN << "debug", "info", "info" >>
                            ELSE << "debug", "info" >>,
                            r.sends, FALSE)
    /\ UNCHANGED << devices, outbound, closed, spawned,
                    delivered, host_view, announced >>
    /\ UNCHANGED catVars

\* The suspended send of the broadcast completes and the loop goes on.
ResumeShutdown ==
    /\ pc = "draining"
    /\ send_result(chan, closed, Head(todo).tx) # "Pending"
    /\ LET r == broadcast(todo, chan, closed, out.sends)
       IN  /\ AfterBroadcast(r)
           /\ out' = [ out EXCEPT
                         !.sends = r.sends,
                         !.logs = IF r.rest = << >> THEN Append(@, "info")
                                  ELSE @ ]
    /\ UNCHANGED << inbox, devices, outbound, closed, spawned,
                    received, lifecycle, pre, delivered, host_view, announced >>
    /\ UNCHANGED catVars

\* disp_rx.recv().await.unwrap() when the queue is empty and every Sender
\* of the channel has been dropped: recv yields None and unwrap panics.
RecvNone ==
    /\ pc = "running"
    /\ inbox = << >>
    /\ pc' = "panicked"
    /\ rx_open' = FALSE
    /\ UNCHANGED << inbox, devices, outbound, chan, closed, todo,
                    spawned, received, lifecycle, pre, out,
                    delivered, host_view, announced >>
    /\ UNCHANGED catVars

(***************************************************************************)
(*  The dispatcher's environment: the holders of a clone of DISP_TX (host  *)
(*  event handlers and device sessions), the sessions behind the device    *)
(*  handles, and the host library that installs the event manager.         *)
(***************************************************************************)

\* Some holder of the inbound Sender sends a message.
ClientSend(m) ==
    /\ rx_open
    /\ received + Len(inbox) < MaxMsgs
    /\ inbox' = Append(inbox, m)
    /\ UNCHANGED << pc, devices, outbound, chan, closed, todo,
                    rx_open, spawned, received, lifecycle, pre, out,
                    delivered, host_view, announced >>
    /\ UNCHANGED catVars

\* OUTBOUND_EVENT_MANAGER becomes Some(..).
InitPlugin ==
    /\ ~outbound
    /\ outbound' = TRUE
    /\ UNCHANGED << inbox, pc, devices, chan, closed, todo,
                    rx_open, spawned, received, lifecycle, pre, out,
                    delivered, host_view, announced >>
    /\ UNCHANGED catVars

\* The session behind a handle takes the next message off its channel.
SessionRecv(tx) ==
    /\ tx \notin closed
    /\ chan[tx] # << >>
    /\ chan' = [ chan EXCEPT ![tx] = Tail(@) ]
    /\ UNCHANGED << inbox, pc, devices, outbound, closed, todo,
                    rx_open, spawned, received, lifecycle, pre, out,
                    delivered, host_view, announced >>
    /\ UNCHANGED catVars

\* The session behind a handle exits: its receiver is dropped.
SessionExit(tx) ==
    /\ tx \notin closed
    /\ closed' = closed \cup { tx }
    /\ UNCHANGED << inbox, pc, devices, outbound, chan, todo,
                    rx_open, spawned, received, lifecycle, pre, out,
                    delivered, host_view, announced >>
    /\ UNCHANGED catVars

\* ---- live HID interfaces ----
Interface(vid, pid, usage_page, serial, port) ==
    [ usage_page |-> usage_page, usage_id |-> 1, vendor_id |-> vid,
      product_id |-> pid, serial_number |-> serial, port |-> port ]

\* What is plugged in while the dispatcher runs: an AKP153, a generation-2
\* HSV293SV3, and a device of no catalog entry.
Attached ==
    { Interface(AJAZZ_VID, AKP153_PID, 65440, "ABC123", 1),
      Interface(MIRABOX_2_VID, HSV293SV3_PID, 65440, "S2", 2),
      Interface(AJAZZ_VID, GK150K_PID, 65440, "ABC123", 3) }

\* Before get_image_format_for_key is called.
ImageIdle(kind, key) ==
    [ kind |-> kind, key |-> key, called |-> FALSE,
      format |-> [ mode |-> "", size |-> << 0, 0 >>,
                   rotation |-> "", mirror |-> "" ] ]

CatalogIdle ==
    /\ image = ImageIdle("AKP153", 0)
    /\ query = [ vid |-> 0, pid |-> 0 ]
    /\ resolved = [ called |-> FALSE, ret |-> None ]
    /\ candidates = { }
    /\ suffix_calls = { }
    /\ scan_pc = "idle"

DispatcherStart ==
    /\ inbox = << >>
    /\ pc = "running"
    /\ devices = { }
    /\ outbound = FALSE
    /\ chan = [ tx \in Handles |-> << >> ]
    /\ closed = { }
    /\ todo = << >>
    /\ rx_open = TRUE
    /\ spawned = 0
    /\ received = 0
    /\ lifecycle = << >>
    /\ pre = [ devices |-> { }, outbound |-> FALSE ]
    /\ out = Outcome(NoMessage, << >>, << >>, << >>, FALSE)
    /\ delivered = << >>
    /\ host_view = [ id \in Ids |-> 0 ]
    /\ announced = { }

Init ==
    /\ DispatcherStart
    /\ CatalogIdle
    /\ hid = Attached

Next ==
    \/ HandlePluginInitialized
    \/ HandleConnected
    \/ HandleDisconnected
    \/ HandleShutdownAll
    \/ HandleUpdate
    \/ HandleSetImage
    \/ HandleSetBrightness
    \/ ResumeForward
    \/ ResumeShutdown
    \/ RecvNone
    \/ \E m \in DeviceMessage : ClientSend(m)
    \/ InitPlugin
    \/ \E tx \in Handles : SessionRecv(tx)
    \/ \E tx \in Handles : SessionExit(tx)

Spec == Init /\ [][Next]_vars

\* The dispatcher task is polled again once its suspended send can complete,
\* and a session that has not exited keeps taking messages off its channel.
SpecFair ==
    /\ Spec
    /\ WF_vars(ResumeForward)
    /\ WF_vars(ResumeShutdown)
    /\ \A tx \in Handles : WF_vars(SessionRecv(tx))

\* A step of dispatcher_task itself: handling a queued message or resuming
\* a suspended send.
DispatcherStep ==
    \/ HandlePluginInitialized
    \/ HandleConnected
    \/ HandleDisconnected
    \/ HandleShutdownAll
    \/ HandleUpdate
    \/ HandleSetImage
    \/ HandleSetBrightness
    \/ ResumeForward
    \/ ResumeShutdown

\* The runtime keeps polling the dispatcher task; nothing is assumed of the
\* sessions, which may sit in device I/O and leave their channel unread.
SpecDispatcherFair == Spec /\ WF_vars(DispatcherStep)

(***************************************************************************)
(*  Kind::from_vid_pid applied to one (vendor id, product id) pair.        *)
(***************************************************************************)

\* The catalog's vendor and product ids, and one of neither.
VidInputs ==
    { AJAZZ_VID, MIRABOX_VID, MIRABOX_2_VID, MG_VID, MADDOG_VID,
      RISEMODE_VID, TMICE_VID, 0 }
PidInputs ==
    { HSV293S_PID, HSV293SV3_PID, HSV293SV3_1005_PID, AKP153_PID,
      AKP153E_PID, AKP153E_REV2_PID, AKP153R_PID, MSD_ONE_PID, GK150K_PID,
      RMV01_PID, TMICESC_PID, 0 }

Resolve ==
    /\ ~resolved.called
    /\ resolved' = [ called |-> TRUE, ret |-> from_vid_pid(query.vid, query.pid) ]
    /\ UNCHANGED << query, hid, candidates, suffix_calls, scan_pc, image >>
    /\ UNCHANGED dispVars

InitKind ==
    /\ DispatcherStart
    /\ query \in [ vid : VidInputs, pid : PidInputs ]
    /\ resolved = [ called |-> FALSE, ret |-> None ]
    /\ hid = { }
    /\ candidates = { }
    /\ suffix_calls = { }
    /\ scan_pc = "idle"
    /\ image = ImageIdle("AKP153", 0)

NextKind == Resolve

SpecKind == InitKind /\ [][NextKind]_vars

(***************************************************************************)
(*  One scan of a set of live HID interfaces.                              *)
(***************************************************************************)

Serials == { "ABC123", "S2" }

\* The interfaces one port can show: every catalog device under each serial,
\* a catalog vendor with another vendor's product id, and a catalog device
\* seen through another usage page.
PortInputs(port) ==
    { Interface(QUERIES[i].vendor_id, QUERIES[i].product_id, 65440, s, port) :
        i \in 1..Len(QUERIES), s \in Serials }
      \cup { Interface(AJAZZ_VID, GK150K_PID, 65440, "ABC123", port),
             Interface(AJAZZ_VID, AKP153_PID, 12, "ABC123", port) }

\* At most one interface on each of two ports.
HidInputs ==
    { { } }
      \cup { { a } : a \in PortInputs(1) }
      \cup { { a, b } : a \in PortInputs(1), b \in PortInputs(2) }

Scan ==
    /\ scan_pc = "idle"
    /\ LET r == scan(hid)
       IN  /\ candidates' = r.candidates
           /\ suffix_calls' = r.suffix_calls
           /\ scan_pc' = IF r.panic THEN "panicked" ELSE "done"
    /\ UNCHANGED << query, resolved, hid, image >>
    /\ UNCHANGED dispVars

InitScan ==
    /\ DispatcherStart
    /\ query = [ vid |-> 0, pid |-> 0 ]
    /\ resolved = [ called |-> FALSE, ret |-> None ]
    /\ hid \in HidInputs
    /\ candidates = { }
    /\ suffix_calls = { }
    /\ scan_pc = "idle"
    /\ image = ImageIdle("AKP153", 0)

NextScan == Scan

SpecScan == InitScan /\ [][NextScan]_vars

(***************************************************************************)
(*  get_image_format_for_key applied to one kind and one key index.        *)
(***************************************************************************)

\* The largest value of the u8 key argument.
U8_MAX == 255

FormatImage ==
    /\ ~image.called
    /\ image' = [ image EXCEPT
                     !.called = TRUE,
                     !.format = get_image_format_for_key(image.kind,
                                                         image.key) ]
    /\ UNCHANGED << query, resolved, hid, candidates, suffix_calls, scan_pc >>
    /\ UNCHANGED dispVars

InitImage ==
    /\ DispatcherStart
    /\ query = [ vid |-> 0, pid |-> 0 ]
    /\ resolved = [ called |-> FALSE, ret |-> None ]
    /\ hid = { }
    /\ candidates = { }
    /\ suffix_calls = { }
    /\ scan_pc = "idle"
    /\ \E kind \in Kinds, key \in 0..U8_MAX : image = ImageIdle(kind, key)

NextImage == FormatImage

SpecImage == InitImage /\ [][NextImage]_vars

(***************************************************************************)
(*                          Properties                                     *)
(***************************************************************************)

\* ---- helpers of the dispatcher properties ----
Range(seq) == { seq[i] : i \in 1..Len(seq) }

Errors(logs) == Cardinality({ i \in 1..Len(logs) : logs[i] = "error" })

RegisteredIds(map) == { e.id : e \in map }

\* The ids with a Connected that no later Disconnected for the same id follows.
Unmatched ==
    { id \in Ids :
        \E i \in 1..Len(lifecycle) :
            /\ lifecycle[i] = [ type |-> "Connected", id |-> id ]
            /\ \A j \in (i + 1)..Len(lifecycle) :
                   lifecycle[j] # [ type |-> "Disconnected", id |-> id ] }

\* ---- C1 ----
\* C1: the registry's keys are exactly the ids with a Connected not yet
\* followed by a Disconnected, and the registry holds one handle per id.
C1_RegistryKeys ==
    /\ RegisteredIds(devices) = Unmatched
    /\ \A e1, e2 \in devices : e1.id = e2.id => e1.tx = e2.tx

\* X connected twice, the second time with another handle, then an unknown
\* id disconnected: the registry holds X once, under the second handle.
C1_Witness ==
    /\ lifecycle = << [ type |-> "Connected", id |-> "X" ],
                      [ type |-> "Connected", id |-> "X" ],
                      [ type |-> "Disconnected", id |-> "Y" ] >>
    /\ devices = { Entry("X", "tx2") }

\* ---- C2 ----
\* Once ShutdownAll is being handled, the sends made and the sends still to
\* make are one ShutdownAll per entry of the registry as it was when the
\* message was received, none for any other id, and the loop has ended as
\* soon as no send is left.
BroadcastCoversRegistry ==
    out.msg.type = "ShutdownAll" =>
        /\ \A s \in Range(out.sends) : s.msg = ShutdownAll
        /\ \A r \in Range(todo) : r.msg = ShutdownAll
        /\ { << s.id, s.tx >> : s \in Range(out.sends) }
               \cup { << r.id, r.tx >> : r \in Range(todo) }
             = { << e.id, e.tx >> : e \in pre.devices }
        /\ Len(out.sends) + Len(todo) = Cardinality(pre.devices)
        /\ pc \in { "draining", "finished" }
        /\ pc = "finished" <=> todo = << >>

OnlyShutdownQueued ==
    \A tx \in Handles :
        \/ chan[tx] # << >> /\ chan'[tx] = Tail(chan[tx])
        \/ /\ Len(chan'[tx]) >= Len(chan[tx])
           /\ SubSeq(chan'[tx], 1, Len(chan[tx])) = chan[tx]
           /\ \A i \in (Len(chan[tx]) + 1)..Len(chan'[tx]) :
                  chan'[tx][i] = ShutdownAll

\* C3: once ShutdownAll has been received the dispatcher is never running
\* again, receives no further message, changes no registry entry, makes no
\* host call and sends nothing but ShutdownAll; the inbound channel is
\* closed when the loop has ended.
C3_NoReturnToRunning ==
    /\ [](out.msg.type = "ShutdownAll" => pc \in { "draining", "finished" })
    /\ [](pc = "finished" => ~rx_open)
    /\ [][ out.msg.type = "ShutdownAll" =>
             /\ out'.msg = out.msg
             /\ received' = received
             /\ devices' = devices
             /\ out'.host = << >>
             /\ OnlyShutdownQueued ]_vars

\* The loop has ended and a message that was queued behind ShutdownAll is
\* still in the queue.
C3_Witness ==
    /\ pc = "finished"
    /\ ~rx_open
    /\ Len(inbox) = 1
    /\ inbox[1].type = "Connected"
    /\ devices = { }

\* ---- C4 ----
\* C4 as stated: an Update for an unregistered id makes no host call, logs
\* one error and leaves the registry alone; a ButtonDown or ButtonUp for a
\* registered id makes exactly one key_down or key_up call with the same id
\* and key, and logs no error.
C4_UpdateAlwaysNotifies ==
    out.msg.type = "Update" =>
        LET m == out.msg IN
        /\ devices = pre.devices
        /\ ~contains_key(pre.devices, m.id) =>
               out.host = << >> /\ Errors(out.logs) = 1
        /\ (contains_key(pre.devices, m.id) /\ m.update.ev = "ButtonDown") =>
               /\ Len(out.host) = 1
               /\ out.host[1].call =
                      [ call |-> "key_down", id |-> m.id, key |-> m.update.key ]
               /\ Errors(out.logs) = 0
        /\ (contains_key(pre.devices, m.id) /\ m.update.ev = "ButtonUp") =>
               /\ Len(out.host) = 1
               /\ out.host[1].call =
                      [ call |-> "key_up", id |-> m.id, key |-> m.update.key ]
               /\ Errors(out.logs) = 0

\* C4 as amended: the same, the host call being made when the host event
\* manager is installed; without it a ButtonDown or ButtonUp for a
\* registered id makes no host call and logs no error.
C4_UpdateNotifies ==
    out.msg.type = "Update" =>
        LET m == out.msg IN
        /\ devices = pre.devices
        /\ ~contains_key(pre.devices, m.id) =>
               out.host = << >> /\ Errors(out.logs) = 1
        /\ (contains_key(pre.devices, m.id) /\ m.update.ev = "ButtonDown") =>
               /\ pre.outbound =>
                      /\ Len(out.host) = 1
                      /\ out.host[1].call =
                             [ call |-> "key_down", id |-> m.id,
                               key |-> m.update.key ]
               /\ ~pre.outbound => out.host = << >>
               /\ Errors(out.logs) = 0
        /\ (contains_key(pre.devices, m.id) /\ m.update.ev = "ButtonUp") =>
               /\ pre.outbound =>
                      /\ Len(out.host) = 1
                      /\ out.host[1].call =
                             [ call |-> "key_up", id |-> m.id,
                               key |-> m.update.key ]
               /\ ~pre.outbound => out.host = << >>
               /\ Errors(out.logs) = 0

\* ButtonDown(17) for the registered X went to the host as key_down(X, 17).
C4_Witness ==
    /\ out.msg = Update("X", [ ev |-> "ButtonDown", key |-> 17 ])
    /\ contains_key(pre.devices, "X")
    /\ pre.outbound
    /\ Len(out.host) = 1
    /\ out.host[1].call.call = "key_down"
    /\ out.host[1].ok

\* ---- C5 ----
\* C5: SetImage or SetBrightness for a registered id makes exactly one send,
\* of the same message, on the handle registered under that id, and logs no
\* error (while the send is suspended on a full channel it is that send that
\* is waiting); for an unregistered id it logs one error and sends nothing.
C5_ForwardToHandle ==
    out.msg.type \in { "SetImage", "SetBrightness" } =>
        LET m == out.msg
            registered == { e \in pre.devices : e.id = m.id }
        IN  /\ out.host = << >>
            /\ devices = pre.devices
            /\ registered = { } =>
                   /\ out.sends = << >>
                   /\ todo = << >>
                   /\ Errors(out.logs) = 1
            /\ registered # { } =>
                   /\ Errors(out.logs) = 0
                   /\ \A e \in registered :
                          IF pc = "forwarding"
                          THEN /\ out.sends = << >>
                               /\ todo = << SendReq(m.id, e.tx, m) >>
                          ELSE /\ Len(out.sends) = 1
                               /\ out.sends[1].id = m.id
                               /\ out.sends[1].tx = e.tx
                               /\ out.sends[1].msg = m
                               /\ todo = << >>

\* SetBrightness(X, 100) went to tx2, the handle of X, while Y is registered
\* under tx1.
C5_Witness ==
    /\ out.msg = SetBrightness("X", 100)
    /\ pre.devices = { Entry("X", "tx2"), Entry("Y", "tx1") }
    /\ out.sends = << SendRecord("X", "tx2", SetBrightness("X", 100), TRUE) >>
    /\ chan["tx2"] = << SetBrightness("X", 100) >>
    /\ chan["tx1"] = << >>

\* ---- C6 ----
\* C6: a Disconnected for an id that is not registered makes no host call,
\* changes no registry entry, does not panic and is reported by a log record
\* (the info record of the arm counted as one).
C6_UnknownDisconnectIsNoOp ==
    (out.msg.type = "Disconnected" /\ ~contains_key(pre.devices, out.msg.id)) =>
        /\ out.host = << >>
        /\ devices = pre.devices
        /\ ~out.panic
        /\ \E i \in 1..Len(out.logs) : out.logs[i] \in { "info", "warn", "error" }

\* ---- C7 ----
\* The human names of the kinds the sessions of the model drive.
NameOf(kind) ==
    IF kind = "AKP153" THEN "Ajazz AKP153" ELSE "Mirabox HSV293SV3"

\* C7 as stated: Connected records the handle under the id and makes exactly
\* one register_device call with the id, the human name, 3, 6, 0 and 0;
\* Disconnected for a registered id removes the entry and makes exactly one
\* deregister_device call with the id.
C7_LifecycleAlwaysNotifies ==
    /\ out.msg.type = "Connected" =>
           /\ get(devices, out.msg.id) = Some(out.msg.tx)
           /\ Len(out.host) = 1
           /\ out.host[1].call =
                  [ call |-> "register_device", id |-> out.msg.id,
                    name |-> NameOf(out.msg.kind), rows |-> 3, cols |-> 6,
                    enc_rows |-> 0, enc_cols |-> 0 ]
    /\ (out.msg.type = "Disconnected"
            /\ contains_key(pre.devices, out.msg.id)) =>
           /\ ~contains_key(devices, out.msg.id)
           /\ Len(out.host) = 1
           /\ out.host[1].call =
                  [ call |-> "deregister_device", id |-> out.msg.id ]

\* C7 as amended: the registry changes as stated, and the one host call is
\* made when the host event manager is installed; without it no host call
\* is made.
C7_LifecycleNotifies ==
    /\ out.msg.type = "Connected" =>
           /\ get(devices, out.msg.id) = Some(out.msg.tx)
           /\ pre.outbound =>
                  /\ Len(out.host) = 1
                  /\ out.host[1].call =
                         [ call |-> "register_device", id |-> out.msg.id,
                           name |-> NameOf(out.msg.kind), rows |-> 3,
                           cols |-> 6, enc_rows |-> 0, enc_cols |-> 0 ]
           /\ ~pre.outbound => out.host = << >>
    /\ (out.msg.type = "Disconnected"
            /\ contains_key(pre.devices, out.msg.id)) =>
           /\ ~contains_key(devices, out.msg.id)
           /\ pre.outbound =>
                  /\ Len(out.host) = 1
                  /\ out.host[1].call =
                         [ call |-> "deregister_device", id |-> out.msg.id ]
           /\ ~pre.outbound => out.host = << >>

\* X was connected and then disconnected with the manager installed: the
\* entry is gone and the host was told once.
C7_Witness ==
    /\ lifecycle = << [ type |-> "Connected", id |-> "X" ],
                      [ type |-> "Disconnected", id |-> "X" ] >>
    /\ out.msg = Disconnected("X")
    /\ pre.outbound
    /\ pre.devices = { Entry("X", "tx1") }
    /\ devices = { }
    /\ out.host = << HostCall(deregister_device("X"), TRUE) >>

\* ---- C8 ----
InQueries(vid, pid) ==
    \E i \in 1..Len(QUERIES) :
        QUERIES[i].vendor_id = vid /\ QUERIES[i].product_id = pid

\* C8: from_vid_pid returns the i-th Kind for the i-th pair of QUERIES,
\* None for every pair that is not in QUERIES, and distinct Kinds for
\* distinct pairs of QUERIES.
C8_FromVidPid ==
    resolved.called =>
        /\ \A i \in 1..Len(QUERIES) :
               (query.vid = QUERIES[i].vendor_id
                    /\ query.pid = QUERIES[i].product_id)
                   => resolved.ret = Some(Kind[i])
        /\ ~InQueries(query.vid, query.pid) => resolved.ret = None
        /\ \A i, j \in 1..Len(QUERIES) :
               i # j =>
                   from_vid_pid(QUERIES[i].vendor_id, QUERIES[i].product_id)
                       # from_vid_pid(QUERIES[j].vendor_id, QUERIES[j].product_id)

\* A catalog product id under another catalog vendor resolved to None.
C8_Witness ==
    /\ resolved.called
    /\ query.vid = MADDOG_VID
    /\ query.pid = RMV01_PID
    /\ resolved.ret = None

\* ---- C9 ----
\* C9: id_suffix returns a string exactly for the kinds of protocol version 1
\* and panics exactly for those of version 2, and a scan never invokes it on
\* a version-2 kind (so no scan panics).
C9_IdSuffixDefined ==
    /\ \A k \in Kinds :
           /\ protocol_version(k) \in { 1, 2 }
           /\ ~id_suffix(k).panic <=> protocol_version(k) = 1
           /\ id_suffix(k).panic <=> protocol_version(k) = 2
    /\ scan_pc # "idle" =>
           /\ scan_pc = "done"
           /\ \A k \in suffix_calls : protocol_version(k) = 1
           /\ \A c \in candidates :
                  protocol_version(c.kind) = 2 => c.id = c.dev.serial_number

\* A scan met a version-2 device beside a version-1 device and finished.
C9_Witness ==
    /\ scan_pc = "done"
    /\ \E c \in candidates : c.kind = "AKP153EREV2"
    /\ \E c \in candidates : c.kind = "AKP153" /\ c.id = "ABC123153"

\* ---- C10 ----
\* C10 as stated: no two candidates of one scan that report the same serial
\* get the same logical id.
C10_UniqueIds ==
    \A c1, c2 \in candidates :
        (c1 # c2 /\ c1.dev.serial_number = c2.dev.serial_number)
            => c1.id # c2.id

\* C10 as amended: two candidates of one scan that report the same serial
\* and are of different kinds, at least one of them of protocol version 1,
\* get different logical ids.
C10_UniqueIdsAcrossKinds ==
    \A c1, c2 \in candidates :
        (/\ c1 # c2
         /\ c1.dev.serial_number = c2.dev.serial_number
         /\ c1.kind # c2.kind
         /\ (protocol_version(c1.kind) = 1 \/ protocol_version(c2.kind) = 1))
            => c1.id # c2.id

\* Two version-1 units of different kinds share a serial and were scanned.
C10_Witness ==
    /\ scan_pc = "done"
    /\ \E c1, c2 \in candidates :
           /\ c1.kind = "AKP153" /\ c2.kind = "AKP153E"
           /\ c1.dev.serial_number = c2.dev.serial_number
           /\ c1.id = "ABC123153" /\ c2.id = "ABC123153E"

\* ---- C11 ----
\* C11: for every kind and every key index 0..255 the image format is JPEG,
\* rotated by 90 degrees and mirrored on both axes, of size 85x85 for a
\* kind of protocol version 1, and for a kind of protocol version 2 of size
\* 82x82 for the keys 5, 11 and 17 and 95x95 for every other key.
C11_ImageFormat ==
    image.called =>
        /\ image.format.mode = "JPEG"
        /\ image.format.rotation = "Rot90"
        /\ image.format.mirror = "Both"
        /\ protocol_version(image.kind) \in { 1, 2 }
        /\ protocol_version(image.kind) = 1 =>
               image.format.size = << 85, 85 >>
        /\ (protocol_version(image.kind) = 2 /\ image.key \in { 5, 11, 17 }) =>
               image.format.size = << 82, 82 >>
        /\ (protocol_version(image.kind) = 2 /\ image.key \notin { 5, 11, 17 }) =>
               image.format.size = << 95, 95 >>

\* Key 17 of a version-2 kind got the smaller size.
C11_Witness ==
    /\ image.called
    /\ image.kind = "AKP153EREV2"
    /\ image.key = 17
    /\ image.format.size = << 82, 82 >>

\* ---- C12 ----
\* A host call of the last handled message returned Err.
HostCallFailed == \E i \in 1..Len(out.host) : ~out.host[i].ok

\* C12: when a register_device, deregister_device, key_down or key_up call
\* fails the dispatcher task aborts: the call was made once, the task has
\* panicked, its inbound channel is gone, and from then on no message is
\* received, no host call or send is made and the registry stays as it is.
C12_HostFailureAborts ==
    /\ [](HostCallFailed =>
             /\ Len(out.host) = 1
             /\ out.host[1].call.call \in
                    { "register_device", "deregister_device",
                      "key_down", "key_up" }
             /\ out.panic
             /\ pc = "panicked"
             /\ ~rx_open)
    /\ [][ HostCallFailed =>
             /\ received' = received
             /\ inbox' = inbox
             /\ out' = out
             /\ devices' = devices
             /\ delivered' = delivered
             /\ host_view' = host_view
             /\ pc' = pc ]_vars

\* key_down for the registered X failed while another message was queued:
\* the task has panicked and the queued message is still there.
C12_Witness ==
    /\ out.msg.type = "Update"
    /\ out.host = << HostCall(key_down("X", 7), FALSE) >>
    /\ pc = "panicked"
    /\ received = 2
    /\ Len(inbox) = 1

\* ---- C13 ----
\* C13: when recv on the inbound channel yields nothing (the queue is empty
\* and every sender is gone), the task ends in its finished state, without
\* a panic: the only way the running dispatcher stops with an empty queue
\* is by finishing.
C13_RecvFailureEndsGracefully ==
    [][ (pc = "running" /\ inbox = << >> /\ pc' # "running")
            => pc' = "finished" ]_vars

\* ---- C14 ----
\* C14: when the send of a forwarded SetImage or SetBrightness to the
\* registered handle fails because the session has closed its channel, the
\* dispatcher does not panic over it and the registry is unchanged (so the
\* loop goes on to the next message).
C14_ForwardFailureHandledLocally ==
    (/\ out.msg.type \in { "SetImage", "SetBrightness" }
     /\ \E i \in 1..Len(out.sends) : ~out.sends[i].ok)
        => /\ ~out.panic
           /\ devices = pre.devices

\* ---- C15 ----
\* The entries of the map held under another id than the given one.
OtherEntries(map, id) == { e \in map : e.id # id }

\* C15: the registry is changed only by handling Connected, which inserts
\* the message's handle under the message's id, and Disconnected, which
\* removes the message's id; both leave the entry of every other id alone,
\* and handling PluginInitialized, Update, SetImage, SetBrightness or
\* ShutdownAll leaves the registry as it was.
C15_RegistryFrame ==
    /\ []((out.msg.type \in { "PluginInitialized", "Update", "SetImage",
                              "SetBrightness", "ShutdownAll" })
              => devices = pre.devices)
    /\ []((out.msg.type \in { "Connected", "Disconnected" })
              => OtherEntries(devices, out.msg.id)
                     = OtherEntries(pre.devices, out.msg.id))
    /\ [][ devices' # devices =>
             /\ inbox # << >>
             /\ out'.msg = Head(inbox)
             /\ received' = received + 1
             /\ \/ /\ Head(inbox).type = "Connected"
                   /\ devices' = OtherEntries(devices, Head(inbox).id)
                                     \cup { Entry(Head(inbox).id, Head(inbox).tx) }
                \/ /\ Head(inbox).type = "Disconnected"
                   /\ devices' = OtherEntries(devices, Head(inbox).id) ]_vars

\* X and Y are registered and X is disconnected: the entry of Y stays.
C15_Witness ==
    /\ out.msg = Disconnected("X")
    /\ pre.devices = { Entry("X", "tx1"), Entry("Y", "tx2") }
    /\ devices = { Entry("Y", "tx2") }

\* ---- C16 ----
\* The arrival numbers of the deliveries made to one destination for one id,
\* in the order the deliveries were made.
SeqsOf(dest, id) ==
    LET idx == { i \in 1..Len(delivered) :
                   delivered[i].dest = dest /\ delivered[i].id = id }
    IN  [ i \in idx |-> delivered[i].seq ]

\* C16: the dispatcher takes one message at a time, always the oldest of
\* its inbound queue and only when the delivery of the one before is done
\* (it never waits for a message with a send outstanding), the queue
\* growing at its tail only; so for every id the commands put on
\* its handle, and the key notifications answered by the host, were made in
\* the order their messages arrived, each message delivered at most once.
C16_ArrivalOrder ==
    /\ [](\A id \in Ids : \A dest \in { "host", "handle" } :
              \A i, j \in DOMAIN SeqsOf(dest, id) :
                  i < j => SeqsOf(dest, id)[i] < SeqsOf(dest, id)[j])
    /\ [](\A i \in 1..Len(delivered) : delivered[i].seq \in 1..received)
    /\ [](pc = "running" => todo = << >>)
    /\ [][ received' # received =>
             /\ pc = "running"
             /\ todo = << >>
             /\ inbox # << >>
             /\ out'.msg = Head(inbox)
             /\ inbox' = Tail(inbox)
             /\ received' = received + 1 ]_vars
    /\ [][ (inbox' # inbox /\ received' = received) =>
             \E m \in DeviceMessage : inbox' = Append(inbox, m) ]_vars
    /\ [][ delivered' # delivered =>
             /\ Len(delivered') = Len(delivered) + 1
             /\ SubSeq(delivered', 1, Len(delivered)) = delivered
             /\ delivered'[Len(delivered')].seq = received'
             /\ delivered'[Len(delivered')].id = out'.msg.id
             /\ delivered'[Len(delivered')].dest = "host" =>
                    out'.msg.type = "Update"
             /\ delivered'[Len(delivered')].dest = "handle" =>
                    out'.msg.type \in { "SetImage", "SetBrightness" } ]_vars

\* SetImage for X was queued on its handle, and the SetBrightness that
\* arrived after it was queued second, once the session had made room.
C16_Witness ==
    /\ delivered = << Delivery("handle", "X", 2), Delivery("handle", "X", 3) >>
    /\ out.msg.type = "SetBrightness"
    /\ Len(out.sends) = 1
    /\ pc = "running"

\* ---- C17 ----
\* C17: a session that stops reading its command channel cannot stall the
\* dispatcher's loop: a dispatcher suspended in a send to that session's
\* handle gets out of the send by itself and goes on with its queue.
C17_LoopNeverStalls == (pc = "forwarding") ~> (pc # "forwarding")

\* ---- C18 ----
\* C18: the ShutdownAll broadcast is best-effort: a send fails only on a
\* handle whose session has closed its channel, the failure is neither a
\* panic nor an error record, and once the loop has ended every registered
\* entry has had its send, the one of every handle still open having
\* succeeded.
C18_BestEffortBroadcast ==
    out.msg.type = "ShutdownAll" =>
        /\ ~out.panic
        /\ pc \in { "draining", "finished" }
        /\ Errors(out.logs) = 0
        /\ \A i \in 1..Len(out.sends) :
               ~out.sends[i].ok => out.sends[i].tx \in closed
        /\ pc = "finished" =>
               \A e \in pre.devices :
                   \E i \in 1..Len(out.sends) :
                       /\ out.sends[i].id = e.id
                       /\ out.sends[i].tx = e.tx
                       /\ out.sends[i].msg = ShutdownAll
                       /\ e.tx \notin closed => out.sends[i].ok

\* The first send of the broadcast failed on a closed channel, the second
\* reached the other handle, and the loop ended.
C18_Witness ==
    /\ out.msg.type = "ShutdownAll"
    /\ pc = "finished"
    /\ Cardinality(pre.devices) = 2
    /\ Len(out.sends) = 2
    /\ ~out.sends[1].ok
    /\ out.sends[2].ok
    /\ chan[out.sends[2].tx] = << ShutdownAll >>

\* ---- C19 ----
\* The ids the host holds as registered: those for which it has answered
\* more register_device than deregister_device calls.
HostRegistered == { id \in Ids : host_view[id] > 0 }

\* C19: whenever the dispatcher has fully processed a message and waits for
\* the next one, the ids the host holds as registered are the registry's
\* keys.
C19_HostViewMatchesRegistry ==
    pc = "running" => HostRegistered = RegisteredIds(devices)

\* ---- C20 ----
\* C20: once the broadcast of ShutdownAll has ended, every session that had
\* announced Connected and no Disconnected since has had ShutdownAll sent
\* on its handle, also when two sessions announced the same id; and no
\* handle leaves the registry unless its id is being disconnected.
C20_EverySessionToldToShutDown ==
    /\ []((out.msg.type = "ShutdownAll" /\ pc = "finished") =>
              \A e \in announced :
                  \E i \in 1..Len(out.sends) :
                      /\ out.sends[i].tx = e.tx
                      /\ out.sends[i].msg = ShutdownAll)
    /\ [][ \A e \in devices :
              e \notin devices' =>
                  /\ out'.msg.type = "Disconnected"
                  /\ out'.msg.id = e.id ]_vars

====
